---------------------------- MODULE Spec2Model ----------------------------
(***************************************************************************)
(* A model of local-echo: the line-editing engine (LocalEchoController),   *)
(* its history ring buffer (HistoryController) and the string utilities    *)
(* they use (utils.ts).                                                    *)
(*                                                                         *)
(* A JavaScript string is a sequence of one-character strings.  The        *)
(* control characters that TLA+ cannot write are named: ESC is \x1b,       *)
(* DEL is \x7f, ETX is \x03.                                               *)
(***************************************************************************)
EXTENDS Integers, Sequences, FiniteSets, TLC

VARIABLES
    active,               \* LocalEchoController._active
    input,                \* LocalEchoController._input
    cursor,               \* LocalEchoController._cursor
    activePrompt,         \* LocalEchoController._activePrompt (Null or a record)
    activeCharPrompt,     \* LocalEchoController._activeCharPrompt (Null or a record)
    termSize,             \* LocalEchoController._termSize
    history,              \* LocalEchoController.history: [size, entries, cursor]
    autocompleteHandlers, \* LocalEchoController._autocompleteHandlers
    promises,             \* the promises handed out by read() and readChar()
    fx,                   \* what the last operation did to its callers and the terminal
    hung,                 \* the handler of the last event never returned
    ret,                  \* the value returned by the last HistoryController call
    call                  \* the last call of a function of utils.ts, with its result

vars == <<active, input, cursor, activePrompt, activeCharPrompt, termSize,
          history, autocompleteHandlers, promises, fx, hung, ret, call>>

-----------------------------------------------------------------------------
(* Bounds of the model. *)

\* Longest input buffer the model lets an event build.
MaxLen == 2
\* Number of promises read(), readChar() and the Tab confirmation may create.
MaxPromises == 2
\* Largest history capacity (HistoryController.size) tried on its own.
MaxHistSize == 3
\* Most autocomplete handlers registered at once.
MaxHandlers == 1
MaxTabLen == 3
\* Longest string, and widest terminal, offsetToColRow is called with on its own.
MaxOffsetLen == 4
MaxCols == 3
\* Longest candidate, and most candidates, getSharedFragment is called with.
MaxWordLen == 2
MaxCands == 3
\* Widest terminal printWide is called with on its own.
MaxWidth == 4
\* Longest command line isIncompleteInput is called with on its own.
MaxShellLen == 4

-----------------------------------------------------------------------------
(* Characters and strings. *)

ESC == "ESC"
DEL == "DEL"
ETX == "ETX"
CR == "\r"
NL == "\n"
TAB == "\t"
SP == " "
SQ == "'"

\* String.prototype.charCodeAt for the characters the model uses.
charCode(c) ==
    CASE c = ETX -> 3
      [] c = TAB -> 9
      [] c = NL -> 10
      [] c = CR -> 13
      [] c = ESC -> 27
      [] c = SP -> 32
      [] c = "\"" -> 34
      [] c = "&" -> 38
      [] c = SQ -> 39
      [] c = "3" -> 51
      [] c = "A" -> 65
      [] c = "B" -> 66
      [] c = "C" -> 67
      [] c = "D" -> 68
      [] c = "F" -> 70
      [] c = "H" -> 72
      [] c = "Y" -> 89
      [] c = "[" -> 91
      [] c = "\\" -> 92
      [] c = "a" -> 97
      [] c = "b" -> 98
      [] c = "c" -> 99
      [] c = "f" -> 102
      [] c = "n" -> 110
      [] c = "y" -> 121
      [] c = "|" -> 124
      [] c = "~" -> 126
      [] c = DEL -> 127

\* The characters String.prototype.trim removes and the regexp class \s matches.
isSpace(c) == c \in {SP, NL, TAB, CR}

\* The regexp class \w.
isWordChar(c) == c \in {"a", "b", "c", "f", "n", "y", "A", "B", "C", "D", "F", "H", "Y", "3"}

Min(a, b) == IF a < b THEN a ELSE b
Max(a, b) == IF a > b THEN a ELSE b

\* String.prototype.substr(start) and substr(start, length), 0-based.
substrFrom(s, start) == SubSeq(s, Min(Max(start, 0), Len(s)) + 1, Len(s))
substr(s, start, n) ==
    LET b == Min(Max(start, 0), Len(s))
    IN  SubSeq(s, b + 1, Min(Len(s), b + Max(n, 0)))

\* String.prototype.startsWith.
startsWith(s, p) == Len(p) <= Len(s) /\ SubSeq(s, 1, Len(p)) = p

RECURSIVE trimStart(_)
trimStart(s) == IF s # <<>> /\ isSpace(Head(s)) THEN trimStart(Tail(s)) ELSE s
RECURSIVE trimEnd(_)
trimEnd(s) ==
    IF s # <<>> /\ isSpace(s[Len(s)]) THEN trimEnd(SubSeq(s, 1, Len(s) - 1)) ELSE s
\* String.prototype.trim.
trim(s) == trimEnd(trimStart(s))

\* A value that may be undefined (string | undefined).
Undefined == [def |-> FALSE, val |-> <<>>]
Defined(v) == [def |-> TRUE, val |-> v]
\* JavaScript truthiness of a string | undefined.
truthy(r) == r.def /\ r.val # <<>>

-----------------------------------------------------------------------------
(* HistoryController: a record [size, entries, cursor]. *)

newHistory(size) == [size |-> size, entries |-> <<>>, cursor |-> 0]

\* Array index, 0-based: undefined outside the array.
entryAt(h, idx) ==
    IF idx >= 0 /\ idx < Len(h.entries) THEN Defined(h.entries[idx + 1]) ELSE Undefined

push_keepOldest(h, entry) ==
    IF trim(entry) = <<>> THEN h
    ELSE IF Len(h.entries) > 0 /\ entry = h.entries[Len(h.entries)] THEN h
    ELSE LET pushed == Append(h.entries, entry)
             kept == IF Len(pushed) > h.size
                     THEN SubSeq(pushed, 1, Len(pushed) - 1) ELSE pushed
         IN  [h EXCEPT !.entries = kept, !.cursor = Len(kept)]

push_noDupCheck(h, entry) ==
    IF trim(entry) = <<>> THEN h
    ELSE LET pushed == Append(h.entries, entry)
             kept == IF Len(pushed) > h.size THEN Tail(pushed) ELSE pushed
         IN  [h EXCEPT !.entries = kept, !.cursor = Len(kept)]

push(h, entry) ==
    IF trim(entry) = <<>> THEN h
    ELSE IF Len(h.entries) > 0 /\ entry = h.entries[Len(h.entries)] THEN h
    ELSE LET pushed == Append(h.entries, entry)
             kept == IF Len(pushed) > h.size THEN Tail(pushed) ELSE pushed
         IN  [h EXCEPT !.entries = kept, !.cursor = Len(kept)]

rewind(h) == [h EXCEPT !.cursor = Len(h.entries)]

getPrevious_noClamp(h) ==
    LET idx == h.cursor - 1
    IN  [h |-> [h EXCEPT !.cursor = idx], ret |-> entryAt(h, idx)]

\* Returns the new controller and the returned value.
getPrevious(h) ==
    LET idx == Max(0, h.cursor - 1)
    IN  [h |-> [h EXCEPT !.cursor = idx], ret |-> entryAt(h, idx)]

getNext_stayOnLast(h) ==
    LET idx == Min(Len(h.entries) - 1, h.cursor + 1)
    IN  [h |-> [h EXCEPT !.cursor = idx], ret |-> entryAt(h, idx)]

getNext(h) ==
    LET idx == Min(Len(h.entries), h.cursor + 1)
    IN  [h |-> [h EXCEPT !.cursor = idx], ret |-> entryAt(h, idx)]

-----------------------------------------------------------------------------
(* utils.ts *)

\* The offsets at which the regexp /\w+/g matches start (leftSide) or end.
RECURSIVE wordBoundariesFrom(_, _, _)
wordBoundariesFrom(s, i, leftSide) ==
    IF i > Len(s) THEN <<>>
    ELSE IF ~isWordChar(s[i]) THEN wordBoundariesFrom(s, i + 1, leftSide)
    ELSE LET more == {j \in i..Len(s) : \A k \in i..j : isWordChar(s[k])}
             last == CHOOSE j \in more : \A k \in more : k <= j
         IN  <<IF leftSide THEN i - 1 ELSE last>> \o wordBoundariesFrom(s, last + 1, leftSide)

wordBoundaries(s, leftSide) == wordBoundariesFrom(s, 1, leftSide)

closestLeftBoundary(s, offset) ==
    LET found == {x \in {wordBoundaries(s, TRUE)[i] : i \in 1..Len(wordBoundaries(s, TRUE))} : x < offset}
    IN  IF found = {} THEN 0 ELSE CHOOSE x \in found : \A y \in found : y <= x

closestRightBoundary(s, offset) ==
    LET found == {x \in {wordBoundaries(s, FALSE)[i] : i \in 1..Len(wordBoundaries(s, FALSE))} : x > offset}
    IN  IF found = {} THEN Len(s) ELSE CHOOSE x \in found : \A y \in found : x <= y

\* The loop of offsetToColRow from character i (1-based) on.
RECURSIVE offsetToColRowFrom(_, _, _, _, _, _)
offsetToColRowFrom(s, i, offset, maxCols, row, col) ==
    IF i > offset THEN [row |-> row, col |-> col]
    ELSE IF i <= Len(s) /\ s[i] = NL
         THEN offsetToColRowFrom(s, i + 1, offset, maxCols, row + 1, 0)
    ELSE IF col + 1 > maxCols
         THEN offsetToColRowFrom(s, i + 1, offset, maxCols, row + 1, 0)
    ELSE offsetToColRowFrom(s, i + 1, offset, maxCols, row, col + 1)

offsetToColRow(s, offset, maxCols) == offsetToColRowFrom(s, 1, offset, maxCols, 0, 0)

countLines(s, maxCols) == offsetToColRow(s, Len(s), maxCols).row + 1

\* The number of characters of s equal to c.
count(s, c) == Cardinality({i \in 1..Len(s) : s[i] = c})

\* input.split(/(\|\||\||&&)/g).pop(): the text after the last separator match,
\* scanning left to right from character i with the segment starting at seg.
RECURSIVE lastSegmentFrom(_, _, _)
lastSegmentFrom(s, i, seg) ==
    IF i > Len(s) THEN SubSeq(s, seg, Len(s))
    ELSE IF s[i] = "|"
         THEN IF i < Len(s) /\ s[i + 1] = "|"
              THEN lastSegmentFrom(s, i + 2, i + 2)
              ELSE lastSegmentFrom(s, i + 1, i + 1)
    ELSE IF s[i] = "&" /\ i < Len(s) /\ s[i + 1] = "&"
         THEN lastSegmentFrom(s, i + 2, i + 2)
    ELSE lastSegmentFrom(s, i + 1, seg)

endsWith(s, p) == Len(p) <= Len(s) /\ SubSeq(s, Len(s) - Len(p) + 1, Len(s)) = p

isIncompleteInput_noBlankCheck(s) ==
    IF count(s, SQ) % 2 # 0 THEN TRUE
    ELSE IF count(s, "\"") % 2 # 0 THEN TRUE
    ELSE IF trim(lastSegmentFrom(s, 1, 1)) = <<>> THEN TRUE
    ELSE endsWith(s, <<"\\">>) /\ ~endsWith(s, <<"\\", "\\">>)

isIncompleteInput(s) ==
    IF trim(s) = <<>> THEN FALSE
    ELSE IF count(s, SQ) % 2 # 0 THEN TRUE
    ELSE IF count(s, "\"") % 2 # 0 THEN TRUE
    ELSE IF trim(lastSegmentFrom(s, 1, 1)) = <<>> THEN TRUE
    ELSE endsWith(s, <<"\\">>) /\ ~endsWith(s, <<"\\", "\\">>)

\* /[^\\][ \t]$/m: a space or tab that ends a line and follows a character
\* other than a backslash.
hasTailingWhitespace(s) ==
    \E i \in 2..Len(s) :
        /\ s[i] \in {SP, TAB}
        /\ s[i - 1] # "\\"
        /\ (i = Len(s) \/ s[i + 1] \in {NL, CR})

\* shell-quote's parse, for strings of word characters, whitespace and single
\* quotes: a token is a maximal run of bare characters and closed '...' sections;
\* whitespace and a quote that is never closed separate tokens.
\* The end (exclusive, 1-based) of the token pieces that start at j.
RECURSIVE tokenEnd(_, _)
tokenEnd(s, j) ==
    IF j > Len(s) THEN j
    ELSE IF s[j] = SQ
         THEN LET closing == {k \in (j + 1)..Len(s) : s[k] = SQ}
              IN  IF closing = {} THEN j
                  ELSE tokenEnd(s, (CHOOSE k \in closing : \A m \in closing : k <= m) + 1)
    ELSE IF isSpace(s[j]) THEN j
    ELSE tokenEnd(s, j + 1)

\* The token's value: its characters without the quotes.
unquote(t) == SelectSeq(t, LAMBDA c : c # SQ)

RECURSIVE parseFrom(_, _)
parseFrom(s, i) ==
    IF i > Len(s) THEN <<>>
    ELSE LET e == tokenEnd(s, i)
         IN  IF e = i THEN parseFrom(s, i + 1)
             ELSE <<unquote(SubSeq(s, i, e - 1))>> \o parseFrom(s, e)

parse(s) == parseFrom(s, 1)

getLastToken(s) ==
    IF trim(s) = <<>> \/ hasTailingWhitespace(s) THEN <<>>
    ELSE LET tokens == parse(s)
         IN  IF tokens = <<>> THEN <<>> ELSE tokens[Len(tokens)]


\* String comparison by UTF-16 code units, the order of Array.prototype.sort().
RECURSIVE lexLess(_, _)
lexLess(a, b) ==
    IF b = <<>> THEN FALSE
    ELSE IF a = <<>> THEN TRUE
    ELSE IF charCode(Head(a)) # charCode(Head(b)) THEN charCode(Head(a)) < charCode(Head(b))
    ELSE lexLess(Tail(a), Tail(b))

RECURSIVE insertSorted(_, _)
insertSorted(list, x) ==
    IF list = <<>> THEN <<x>>
    ELSE IF lexLess(x, Head(list)) THEN <<x>> \o list
    ELSE <<Head(list)>> \o insertSorted(Tail(list), x)

\* candidates.sort()
RECURSIVE sort(_)
sort(list) == IF list = <<>> THEN <<>> ELSE insertSorted(sort(Tail(list)), Head(list))

\* The autocomplete callbacks the model registers: what fn(index, tokens) does.
\* "bad" throws; the others return a fixed list.
HandlerFns == {"two", "many", "bad"}
callHandler(fn, index, tokens) ==
    CASE fn = "two" -> [throws |-> FALSE, list |-> <<<<"y", "y">>, <<"y">>>>]
      [] fn = "many" -> [throws |-> FALSE, list |-> <<<<"y", "y">>, <<"y">>, <<"y", "y", "y">>>>]
      [] fn = "one" -> [throws |-> FALSE, list |-> <<<<"y", "y">>>>]
      [] fn = "bad" -> [throws |-> TRUE, list |-> <<>>]

RECURSIVE reduceCallbacks_failFast(_, _, _)
reduceCallbacks_failFast(callbacks, index, tokens) ==
    IF callbacks = <<>> THEN <<>>
    ELSE LET r == callHandler(Head(callbacks), index, tokens)
         IN  IF r.throws THEN <<>>
             ELSE r.list \o reduceCallbacks_failFast(Tail(callbacks), index, tokens)

\* callbacks.reduce(...): each callback's list appended, a throwing one skipped.
RECURSIVE reduceCallbacks(_, _, _)
reduceCallbacks(callbacks, index, tokens) ==
    IF callbacks = <<>> THEN <<>>
    ELSE LET r == callHandler(Head(callbacks), index, tokens)
         IN  (IF r.throws THEN <<>> ELSE r.list)
                 \o reduceCallbacks(Tail(callbacks), index, tokens)

collectAutocompleteCandidates(callbacks, s) ==
    LET tokens == parse(s)
        last == Len(tokens) - 1
        index == IF trim(s) = <<>> THEN 0
                 ELSE IF hasTailingWhitespace(s) THEN last + 1 ELSE last
        expr == IF trim(s) = <<>> \/ hasTailingWhitespace(s) \/ tokens = <<>>
                THEN <<>> ELSE tokens[Len(tokens)]
    IN  SelectSeq(reduceCallbacks(callbacks, index, tokens), LAMBDA txt : startsWith(txt, expr))

getSharedFragment_first(fragment, candidates) == Defined(candidates[1])

getSharedFragment_nullOnMismatch(fragment, candidates) ==
    IF \E k \in 1..Len(candidates) : ~startsWith(candidates[k], fragment)
    THEN Undefined
    ELSE Defined(fragment)

\* string | null: null is Undefined.
RECURSIVE getSharedFragment(_, _)
getSharedFragment(fragment, candidates) ==
    IF Len(fragment) >= Len(candidates[1]) THEN Defined(fragment)
    ELSE LET oldFragment == fragment
             longer == fragment \o substr(candidates[1], Len(fragment), 1)
             bad == {i \in 1..Len(candidates) :
                        ~startsWith(candidates[i], oldFragment)
                        \/ ~startsWith(candidates[i], longer)}
             first == CHOOSE i \in bad : \A j \in bad : i <= j
         IN  IF bad = {} THEN getSharedFragment(longer, candidates)
             ELSE IF ~startsWith(candidates[first], oldFragment) THEN Undefined
             ELSE Defined(oldFragment)


-----------------------------------------------------------------------------
(* LocalEchoController.  Its operations are operators over the record of    *)
(* its fields; the actions below apply them to the variables.               *)

\* options.maxAutocompleteEntries, set to 2 here (the default is 100).
maxAutocompleteEntries == 2
\* options.historySize, set to 1 here (the default is 10).
historySize == 1

\* _activePrompt = null and _activeCharPrompt = null.
NoPrompt == [id |-> 0, prompt |-> <<>>, continuationPrompt |-> <<>>]
\* `then` is what is chained on the promise of readChar: "none" for a caller's
\* readChar, "confirm" for the Tab confirmation (list on y/Y, then resume with
\* the saved cursor).
NoCharPrompt == [id |-> 0, then |-> "none", cursor |-> 0, candidates |-> <<>>]

\* What an operation did: the resolve and reject calls it made, as <<promise,
\* value>>; the texts it wrote to the terminal, one per write, apart from the
\* redraw of the input line (clearInput, setInput, setCursor); and the number of
\* times the resume step of printAndRestartPrompt ran.
\* No function of utils.ts has been called on its own.
NoCall == [fn |-> "none", str |-> <<>>, n |-> 0, cols |-> 0, list |-> <<>>,
           fns |-> <<>>, out |-> <<>>]

NoFx == [resolved |-> <<>>, rejected |-> <<>>, wrote |-> <<>>, resumes |-> 0]

\* The controller as a record of the variables.
Self ==
    [active |-> active, input |-> input, cursor |-> cursor,
     activePrompt |-> activePrompt, activeCharPrompt |-> activeCharPrompt,
     termSize |-> termSize, history |-> history,
     autocompleteHandlers |-> autocompleteHandlers,
     promises |-> promises, fx |-> NoFx, hung |-> hung]

\* new Promise(...): a pending promise, named by its place in `promises`.
newPromise(s, kind) ==
    [s EXCEPT !.promises = Append(@, [kind |-> kind, state |-> "pending", settles |-> 0])]

\* A call of a promise's resolve or reject: only the first call settles it.
settle(s, id, how) ==
    [s EXCEPT !.promises[id] =
        [@ EXCEPT !.state = IF @ = "pending" THEN how ELSE @, !.settles = @ + 1]]

resolve(s, id, value) ==
    [settle(s, id, "resolved") EXCEPT !.fx.resolved = Append(@, <<id, value>>)]

reject(s, id, reason) ==
    [settle(s, id, "rejected") EXCEPT !.fx.rejected = Append(@, <<id, reason>>)]

\* this.term.write(text)
write(s, text) == [s EXCEPT !.fx.wrote = Append(@, text)]

\* this.term.write("\r\n")
writeLineBreak(s) == write(s, <<CR, NL>>)

\* print(message): runs of line ends become one "\r\n".
RECURSIVE crlf(_)
crlf(message) ==
    IF message = <<>> THEN <<>>
    ELSE IF Head(message) \in {CR, NL}
    THEN IF Len(message) > 1 /\ message[2] \in {CR, NL}
         THEN crlf(Tail(message))
         ELSE <<CR, NL>> \o crlf(Tail(message))
    ELSE <<Head(message)>> \o crlf(Tail(message))

print(s, message) == write(s, crlf(message))

println(s, message) == print(s, message \o <<NL>>)

read(s, prompt, continuationPrompt) ==
    LET p == newPromise(write(s, prompt), "read")
    IN  [p EXCEPT !.activePrompt = [id |-> Len(p.promises), prompt |-> prompt,
                                    continuationPrompt |-> continuationPrompt],
                  !.input = <<>>, !.cursor = 0, !.active = TRUE]

\* readChar chained with `then`.
readCharThen(s, prompt, then, savedCursor, candidates) ==
    LET p == newPromise(write(s, prompt), "char")
    IN  [p EXCEPT !.activeCharPrompt = [id |-> Len(p.promises), then |-> then,
                                        cursor |-> savedCursor, candidates |-> candidates]]

readChar(s, prompt) == readCharThen(s, prompt, "none", 0, <<>>)

abortRead_keepActive(s, reason) ==
    LET s1 == IF s.activePrompt.id # 0 \/ s.activeCharPrompt.id # 0
              THEN writeLineBreak(s) ELSE s
        s2 == IF s1.activePrompt.id # 0
              THEN [reject(s1, s1.activePrompt.id, reason) EXCEPT !.activePrompt = NoPrompt]
              ELSE s1
    IN  IF s2.activeCharPrompt.id # 0
        THEN [reject(s2, s2.activeCharPrompt.id, reason) EXCEPT !.activeCharPrompt = NoCharPrompt]
        ELSE s2

abortRead(s, reason) ==
    LET s1 == IF s.activePrompt.id # 0 \/ s.activeCharPrompt.id # 0
              THEN writeLineBreak(s) ELSE s
        s2 == IF s1.activePrompt.id # 0
              THEN [reject(s1, s1.activePrompt.id, reason) EXCEPT !.activePrompt = NoPrompt]
              ELSE s1
        s3 == IF s2.activeCharPrompt.id # 0
              THEN [reject(s2, s2.activeCharPrompt.id, reason) EXCEPT !.activeCharPrompt = NoCharPrompt]
              ELSE s2
    IN  [s3 EXCEPT !.active = FALSE]

\* " ".repeat(n)
RECURSIVE spaces(_)
spaces(n) == IF n <= 0 THEN <<>> ELSE <<SP>> \o spaces(n - 1)

\* The inner loop of printWide: the row made of items i .. (0-based), col
\* columns done.
RECURSIVE wideRow(_, _, _, _, _)
wideRow(items, i, col, wideCols, itemWidth) ==
    IF col >= wideCols \/ i >= Len(items) THEN <<>>
    ELSE items[i + 1] \o spaces(itemWidth - Len(items[i + 1]))
             \o wideRow(items, i + 1, col + 1, wideCols, itemWidth)

\* The outer loop of printWide from row `row` on.
RECURSIVE wideRows(_, _, _, _, _, _)
wideRows(s, items, row, rows, wideCols, itemWidth) ==
    IF row >= rows THEN s
    ELSE wideRows(println(s, wideRow(items, row * wideCols, 0, wideCols, itemWidth)),
                  items, row + 1, rows, wideCols, itemWidth)

\* When no column fits, wideCols is 0, wideRows = Math.ceil(items.length / 0)
\* is Infinity and the loop over the rows never ends.  When itemWidth is 0
\* (empty items, no padding) wideCols is Infinity or NaN, wideRows is 0 or NaN
\* and the loop over the rows is not entered.
printWide(s, items, padding) ==
    IF items = <<>> THEN println(s, <<>>)
    ELSE LET longest == CHOOSE n \in {Len(items[i]) : i \in 1..Len(items)} :
                            \A i \in 1..Len(items) : Len(items[i]) <= n
             itemWidth == longest + padding
         IN  IF itemWidth = 0 THEN s
             ELSE LET wideCols == s.termSize.cols \div itemWidth
                      rows == (Len(items) + wideCols - 1) \div wideCols
                  IN  IF wideCols = 0 THEN [s EXCEPT !.hung = TRUE]
                      ELSE wideRows(s, items, 0, rows, wideCols, itemWidth)


\* setInput: the cursor is trimmed to the new input, then the input replaced.
setInput(s, newInput) ==
    [s EXCEPT !.cursor = IF @ > Len(newInput) THEN Len(newInput) ELSE @,
              !.input = newInput]

setCursor(s, newCursor) ==
    [s EXCEPT !.cursor = IF newCursor < 0 THEN 0
                         ELSE IF newCursor > Len(s.input) THEN Len(s.input)
                         ELSE newCursor]

handleCursorMove(s, dir) ==
    IF dir > 0 THEN setCursor(s, s.cursor + Min(dir, Len(s.input) - s.cursor))
    ELSE IF dir < 0 THEN setCursor(s, s.cursor + Max(dir, -s.cursor))
    ELSE s

handleCursorErase_noGuard(s, backspace) ==
    IF backspace
    THEN setInput([s EXCEPT !.cursor = @ - 1],
                  substr(s.input, 0, s.cursor - 1) \o substrFrom(s.input, s.cursor))
    ELSE setInput(s, substr(s.input, 0, s.cursor) \o substrFrom(s.input, s.cursor + 1))

handleCursorErase(s, backspace) ==
    IF backspace
    THEN IF s.cursor <= 0 THEN s
         ELSE setInput([s EXCEPT !.cursor = @ - 1],
                       substr(s.input, 0, s.cursor - 1) \o substrFrom(s.input, s.cursor))
    ELSE setInput(s, substr(s.input, 0, s.cursor) \o substrFrom(s.input, s.cursor + 1))

handleCursorInsert_atEnd(s, data) ==
    setInput([s EXCEPT !.cursor = @ + Len(data)], s.input \o data)

handleCursorInsert(s, data) ==
    setInput([s EXCEPT !.cursor = @ + Len(data)],
             substr(s.input, 0, s.cursor) \o data \o substrFrom(s.input, s.cursor))

fakeExecute(s, text) ==
    LET oldInput == s.input
        oldCursor == s.cursor
        s1 == [s EXCEPT !.history = push(@, text)]
        s2 == writeLineBreak(setInput(s1, text))
    IN  setCursor(setInput(s2, oldInput), oldCursor)


handleReadComplete_keepPrompt(s) ==
    LET s1 == [s EXCEPT !.history = push(@, s.input)]
        s2 == IF s1.activePrompt.id # 0
              THEN resolve(s1, s1.activePrompt.id, s1.input)
              ELSE s1
    IN  [writeLineBreak(s2) EXCEPT !.active = FALSE]

handleReadComplete_noPush(s) ==
    LET s2 == IF s.activePrompt.id # 0
              THEN [resolve(s, s.activePrompt.id, s.input) EXCEPT !.activePrompt = NoPrompt]
              ELSE s
    IN  [writeLineBreak(s2) EXCEPT !.active = FALSE]

handleReadComplete(s) ==
    LET s1 == [s EXCEPT !.history = push(@, s.input)]
        s2 == IF s1.activePrompt.id # 0
              THEN [resolve(s1, s1.activePrompt.id, s1.input) EXCEPT !.activePrompt = NoPrompt]
              ELSE s1
    IN  [writeLineBreak(s2) EXCEPT !.active = FALSE]

\* applyPrompts(input): the prompt, and the continuation prompt after each "\n".
RECURSIVE applyContinuation(_, _)
applyContinuation(in, continuationPrompt) ==
    IF in = <<>> THEN <<>>
    ELSE IF Head(in) = NL
    THEN <<NL>> \o continuationPrompt \o applyContinuation(Tail(in), continuationPrompt)
    ELSE <<Head(in)>> \o applyContinuation(Tail(in), continuationPrompt)

applyPrompts(s, in) ==
    s.activePrompt.prompt \o applyContinuation(in, s.activePrompt.continuationPrompt)

applyPromptOffset(s, in, offset) == Len(applyPrompts(s, substr(in, 0, offset)))

\* for (let i = 0; i < n; ++i) this.term.write(text)
RECURSIVE writeTimes(_, _, _)
writeTimes(s, text, n) == IF n <= 0 THEN s ELSE writeTimes(write(s, text), text, n - 1)

\* clearInput: down to the last row of the displayed input, then each of its
\* rows erased from the last to the first, at the cached column count.
clearInput(s) ==
    LET currentPrompt == applyPrompts(s, s.input)
        allRows == countLines(currentPrompt, s.termSize.cols)
        promptCursor == applyPromptOffset(s, s.input, s.cursor)
        at == offsetToColRow(currentPrompt, promptCursor, s.termSize.cols)
        moveRows == allRows - at.row - 1
        s1 == writeTimes(s, <<ESC, "[", "E">>, moveRows)
        s2 == write(s1, <<CR, ESC, "[", "K">>)
    IN  writeTimes(s2, <<ESC, "[", "F", ESC, "[", "K">>, allRows - 1)

\* setInput(newInput, clearInput) with what it writes: the input is printed
\* with its prompts and the terminal cursor is put where the logical one is.
setInputOnTerm(s, newInput, clearFirst) ==
    LET s0 == IF clearFirst THEN clearInput(s) ELSE s
        newPrompt == applyPrompts(s0, newInput)
        s1 == print(s0, newPrompt)
        s2 == [s1 EXCEPT !.cursor = IF @ > Len(newInput) THEN Len(newInput) ELSE @]
        newCursor == applyPromptOffset(s2, newInput, s2.cursor)
        newLines == countLines(newPrompt, s2.termSize.cols)
        at == offsetToColRow(newPrompt, newCursor, s2.termSize.cols)
        moveUpRows == newLines - at.row - 1
        s3 == writeTimes(write(s2, <<CR>>), <<ESC, "[", "F">>, moveUpRows)
        s4 == writeTimes(s3, <<ESC, "[", "C">>, at.col)
    IN  [s4 EXCEPT !.input = newInput]

handleTermResize_sizeFirst(s, size) ==
    setInputOnTerm(clearInput([s EXCEPT !.termSize = size]), s.input, FALSE)

\* handleTermResize, with what it writes to the terminal.
handleTermResize(s, size) ==
    setInputOnTerm([clearInput(s) EXCEPT !.termSize = size], s.input, FALSE)

\* handleCursorInsert, with what it writes to the terminal: the cursor is
\* advanced before setInput erases the displayed input.
handleCursorInsertOnTerm(s, data) ==
    setInputOnTerm([s EXCEPT !.cursor = @ + Len(data)],
                   substr(s.input, 0, s.cursor) \o data \o substrFrom(s.input, s.cursor),
                   TRUE)

\* handleCursorErase, with what it writes to the terminal: Backspace erases
\* the displayed input before it moves the cursor.
handleCursorEraseOnTerm(s, backspace) ==
    IF backspace
    THEN IF s.cursor <= 0 THEN s
         ELSE setInputOnTerm([clearInput(s) EXCEPT !.cursor = @ - 1],
                             substr(s.input, 0, s.cursor - 1) \o substrFrom(s.input, s.cursor),
                             FALSE)
    ELSE setInputOnTerm(s, substr(s.input, 0, s.cursor) \o substrFrom(s.input, s.cursor + 1),
                        TRUE)

resume_keepCursor(s, savedCursor) == setInput([s EXCEPT !.fx.resumes = @ + 1], s.input)

\* The resume step of printAndRestartPrompt.
resume(s, savedCursor) ==
    setInput([s EXCEPT !.cursor = savedCursor, !.fx.resumes = @ + 1], s.input)

\* printAndRestartPrompt(() => { this.printWide(candidates) }): the callback
\* returns nothing and the prompt is resumed at once.
printAndRestartPromptList(s, candidates) ==
    LET s1 == writeLineBreak(setCursor(s, Len(s.input)))
        s2 == printWide(s1, candidates, 2)
    IN  IF s2.hung THEN s2 ELSE resume(s2, s.cursor)

\* `Display all ${candidates.length} possibilities? (y or n)`, shortened.
ConfirmPrompt == <<"?">>

\* printAndRestartPrompt(() => this.readChar(...).then(...)): the resume step
\* is chained on the promise of readChar.
printAndRestartPromptConfirm(s, candidates) ==
    readCharThen(writeLineBreak(setCursor(s, Len(s.input))), ConfirmPrompt,
                 "confirm", s.cursor, candidates)

\* case "\t" of handleData.
handleTab(s) ==
    IF Len(s.autocompleteHandlers) > 0
    THEN LET inputFragment == substr(s.input, 0, s.cursor)
             hasTailingSpace == hasTailingWhitespace(inputFragment)
             candidates == sort(collectAutocompleteCandidates(s.autocompleteHandlers, inputFragment))
             lastToken == getLastToken(inputFragment)
         IN  IF Len(candidates) = 0
             THEN IF ~hasTailingSpace THEN handleCursorInsert(s, <<SP>>) ELSE s
             ELSE IF Len(candidates) = 1
             THEN handleCursorInsert(s, substrFrom(candidates[1], Len(lastToken)) \o <<SP>>)
             ELSE IF Len(candidates) <= maxAutocompleteEntries
             THEN LET sharedFragment == getSharedFragment(inputFragment, candidates)
                      s1 == IF truthy(sharedFragment)
                            THEN handleCursorInsert(s, substrFrom(sharedFragment.val, Len(lastToken)))
                            ELSE s
                  IN  printAndRestartPromptList(s1, candidates)
             ELSE printAndRestartPromptConfirm(s, candidates)
    ELSE handleCursorInsert(s, <<SP, SP, SP, SP>>)

\* case "\x03" of handleData.
handleCtrlC_noRewind(s) ==
    LET s1 == write(setCursor(s, Len(s.input)), <<"^", "C", CR, NL>> \o s.activePrompt.prompt)
    IN  [s1 EXCEPT !.input = <<>>, !.cursor = 0]

handleCtrlC(s) ==
    LET s1 == write(setCursor(s, Len(s.input)), <<"^", "C", CR, NL>> \o s.activePrompt.prompt)
    IN  [s1 EXCEPT !.input = <<>>, !.cursor = 0, !.history = rewind(@)]

handleData(s, data) ==
    IF ~s.active \/ s.hung THEN s
    ELSE IF data = <<>> THEN handleCursorInsert(s, data)
    ELSE IF charCode(data[1]) = 27
    THEN LET seq == substrFrom(data, 1)
         IN  CASE seq = <<"[", "A">> ->
                    LET g == getPrevious(s.history)
                        s1 == [s EXCEPT !.history = g.h]
                    IN  IF truthy(g.ret)
                        THEN setCursor(setInput(s1, g.ret.val), Len(g.ret.val))
                        ELSE s1
               [] seq = <<"[", "B">> ->
                    LET g == getNext(s.history)
                        s1 == [s EXCEPT !.history = g.h]
                        value == IF truthy(g.ret) THEN g.ret.val ELSE <<>>
                    IN  setCursor(setInput(s1, value), Len(value))
               [] seq = <<"[", "D">> -> handleCursorMove(s, -1)
               [] seq = <<"[", "C">> -> handleCursorMove(s, 1)
               [] seq = <<"[", "3", "~">> -> handleCursorErase(s, FALSE)
               [] seq = <<"[", "F">> -> setCursor(s, Len(s.input))
               [] seq = <<"[", "H">> -> setCursor(s, 0)
               [] seq = <<"b">> -> setCursor(s, closestLeftBoundary(s.input, s.cursor))
               [] seq = <<"f">> -> setCursor(s, closestRightBoundary(s.input, s.cursor))
               [] seq = <<DEL>> ->
                    LET ofs == closestLeftBoundary(s.input, s.cursor)
                    IN  setCursor(setInput(s, substr(s.input, 0, ofs) \o substrFrom(s.input, s.cursor)),
                                  ofs)
               [] OTHER -> s
    ELSE IF charCode(data[1]) < 32 \/ charCode(data[1]) = 127
    THEN CASE data = <<CR>> ->
                    IF isIncompleteInput(s.input)
                    THEN handleCursorInsert(s, <<NL>>)
                    ELSE handleReadComplete(s)
           [] data = <<DEL>> -> handleCursorErase(s, TRUE)
           [] data = <<TAB>> -> handleTab(s)
           [] data = <<ETX>> -> handleCtrlC(s)
           [] OTHER -> s
    ELSE handleCursorInsert(s, data)

\* data.replace(/[\r\n]+/g, "\r")
RECURSIVE normalizeLineEndings(_)
normalizeLineEndings(data) ==
    IF data = <<>> THEN <<>>
    ELSE IF Head(data) \in {CR, NL}
    THEN IF Len(data) > 1 /\ data[2] \in {CR, NL}
         THEN normalizeLineEndings(Tail(data))
         ELSE <<CR>> \o normalizeLineEndings(Tail(data))
    ELSE <<Head(data)>> \o normalizeLineEndings(Tail(data))

\* Array.from(normData).forEach((c) => this.handleData(c))
RECURSIVE forEachHandleData(_, _)
forEachHandleData(s, chars) ==
    IF chars = <<>> THEN s
    ELSE forEachHandleData(handleData(s, <<Head(chars)>>), Tail(chars))

\* What is chained on the promise of the char prompt, run once it is resolved
\* and before the next event: for the Tab confirmation, the listing on y or Y,
\* then the resume step.
charPromptThen(s, prompt, data) ==
    IF prompt.then = "confirm"
    THEN LET s1 == IF data = <<"y">> \/ data = <<"Y">>
                   THEN printWide(s, prompt.candidates, 2)
                   ELSE s
         IN  IF s1.hung THEN s1 ELSE resume(s1, prompt.cursor)
    ELSE s

handleTermData(s, data) ==
    IF ~s.active \/ s.hung THEN s
    ELSE IF s.activeCharPrompt.id # 0
    THEN LET s1 == [resolve(s, s.activeCharPrompt.id, data) EXCEPT !.activeCharPrompt = NoCharPrompt]
         IN  charPromptThen(writeLineBreak(s1), s.activeCharPrompt, data)
    ELSE IF Len(data) > 3 /\ charCode(data[1]) # 27
    THEN forEachHandleData(s, normalizeLineEndings(data))
    ELSE handleData(s, data)
\* The terminal delivering the characters one by one, each as a data event of
\* its own (the continuation of a char prompt runs before the next event).
RECURSIVE deliverEach(_, _)
deliverEach(s, chars) ==
    IF chars = <<>> THEN s
    ELSE deliverEach(handleTermData(s, <<Head(chars)>>), Tail(chars))


addAutocompleteHandler(s, fn) == [s EXCEPT !.autocompleteHandlers = Append(@, fn)]

removeAutocompleteHandler(s, fn) ==
    LET found == {i \in 1..Len(s.autocompleteHandlers) : s.autocompleteHandlers[i] = fn}
        idx == CHOOSE i \in found : \A j \in found : i <= j
    IN  IF found = {} THEN s
        ELSE [s EXCEPT !.autocompleteHandlers =
                  SubSeq(@, 1, idx - 1) \o SubSeq(@, idx + 1, Len(@))]


-----------------------------------------------------------------------------
(* The engine as a state machine: one action per public operation and per   *)
(* terminal event.                                                          *)

\* The chunks the terminal delivers.
KeyUp == <<ESC, "[", "A">>
KeyDown == <<ESC, "[", "B">>
KeyLeft == <<ESC, "[", "D">>
KeyRight == <<ESC, "[", "C">>
KeyDelete == <<ESC, "[", "3", "~">>
KeyEnd == <<ESC, "[", "F">>
KeyHome == <<ESC, "[", "H">>
KeyAltLeft == <<ESC, "b">>
KeyAltRight == <<ESC, "f">>
KeyAltBackspace == <<ESC, DEL>>
KeyUnknown == <<ESC, "[", "Y">>
Printable == {<<"y">>, <<SP>>, <<SQ>>}
Pastes == {<<SQ, CR, NL, SQ>>, <<"y", TAB, "y", CR>>}
Chunks ==
    Printable \cup Pastes
    \cup {<<CR>>, <<DEL>>, <<TAB>>, <<ETX>>,
          KeyUp, KeyDown, KeyLeft, KeyRight, KeyDelete, KeyEnd, KeyHome,
          KeyAltLeft, KeyAltRight, KeyAltBackspace, KeyUnknown}

\* The arguments the callers pass.
Prompts == {<<"$">>}
ContinuationPrompts == {<<">">>}
CharPrompts == {<<"?">>}
Reasons == {"aborted", "timeout"}
FakeInputs == {<<"y">>, <<>>}
TermSizes == {[cols |-> 2, rows |-> 1], [cols |-> 5, rows |-> 2]}

Init ==
    /\ active = FALSE
    /\ input = <<>>
    /\ cursor = 0
    /\ activePrompt = NoPrompt
    /\ activeCharPrompt = NoCharPrompt
    /\ termSize \in TermSizes
    /\ history = newHistory(historySize)
    /\ autocompleteHandlers = <<>>
    /\ promises = <<>>
    /\ fx = NoFx
    /\ hung = FALSE
    /\ ret = Undefined
    /\ call = NoCall

\* The controller after an operation becomes the state.
Assign(s) ==
    /\ active' = s.active
    /\ input' = s.input
    /\ cursor' = s.cursor
    /\ activePrompt' = s.activePrompt
    /\ activeCharPrompt' = s.activeCharPrompt
    /\ termSize' = s.termSize
    /\ history' = s.history
    /\ autocompleteHandlers' = s.autocompleteHandlers
    /\ promises' = s.promises
    /\ fx' = s.fx
    /\ hung' = s.hung
    /\ ret' = ret
    /\ call' = call

\* The same, within the bounds.
Becomes(s) ==
    /\ Len(s.input) <= MaxLen
    /\ Len(s.promises) <= MaxPromises
    /\ Len(s.autocompleteHandlers) <= MaxHandlers
    /\ Assign(s)

Read == ~hung /\ \E p \in Prompts, c \in ContinuationPrompts : Becomes(read(Self, p, c))

ReadChar == ~hung /\ \E p \in CharPrompts : Becomes(readChar(Self, p))

AbortRead(reason) == ~hung /\ Becomes(abortRead(Self, reason))

FakeExecute(text) == ~hung /\ Becomes(fakeExecute(Self, text))

AddAutocompleteHandler(fn) == ~hung /\ Becomes(addAutocompleteHandler(Self, fn))

RemoveAutocompleteHandler(fn) == ~hung /\ Becomes(removeAutocompleteHandler(Self, fn))

TermResize(size) == ~hung /\ Becomes(handleTermResize(Self, size))

TermData(data) == ~hung /\ Becomes(handleTermData(Self, data))

Next ==
    \/ Read
    \/ ReadChar
    \/ \E reason \in Reasons : AbortRead(reason)
    \/ \E text \in FakeInputs : FakeExecute(text)
    \/ \E fn \in HandlerFns : AddAutocompleteHandler(fn)
    \/ \E fn \in HandlerFns : RemoveAutocompleteHandler(fn)
    \/ \E size \in TermSizes : TermResize(size)
    \/ \E data \in Chunks : TermData(data)

Spec == Init /\ [][Next]_vars


-----------------------------------------------------------------------------
(* The history ring buffer on its own: any sequence of its four methods on  *)
(* a buffer of any capacity from 1 to MaxHistSize.                          *)

\* The entries pushed.
HistoryInputs == {<<>>, <<SP>>, <<"a">>, <<"b">>, <<"a", SP>>}

InitHistory ==
    /\ active = FALSE
    /\ input = <<>>
    /\ cursor = 0
    /\ activePrompt = NoPrompt
    /\ activeCharPrompt = NoCharPrompt
    /\ termSize = [cols |-> 5, rows |-> 2]
    /\ history \in {newHistory(n) : n \in 1..MaxHistSize}
    /\ autocompleteHandlers = <<>>
    /\ promises = <<>>
    /\ fx = NoFx
    /\ hung = FALSE
    /\ ret = Undefined
    /\ call = NoCall

engineVars == <<active, input, cursor, activePrompt, activeCharPrompt, termSize,
                autocompleteHandlers, promises, fx, hung>>

HistoryPush(entry) ==
    /\ history' = push(history, entry)
    /\ ret' = Undefined
    /\ UNCHANGED <<engineVars, call>>

HistoryRewind ==
    /\ history' = rewind(history)
    /\ ret' = Undefined
    /\ UNCHANGED <<engineVars, call>>

HistoryGetPrevious ==
    /\ history' = getPrevious(history).h
    /\ ret' = getPrevious(history).ret
    /\ UNCHANGED <<engineVars, call>>

HistoryGetNext ==
    /\ history' = getNext(history).h
    /\ ret' = getNext(history).ret
    /\ UNCHANGED <<engineVars, call>>

NextHistory ==
    \/ \E entry \in HistoryInputs : HistoryPush(entry)
    \/ HistoryRewind
    \/ HistoryGetPrevious
    \/ HistoryGetNext

SpecHistory == InitHistory /\ [][NextHistory]_vars


-----------------------------------------------------------------------------
(* Properties of the history ring buffer, under SpecHistory. *)

\* C8: after any sequence of push, rewind, getPrevious and getNext on a buffer
\* of capacity N >= 1, no stored entry is empty or whitespace-only, no stored
\* entry equals the one stored just before it, there are at most N entries and
\* the browse cursor lies in 0..length(entries).
C8_HistoryInvariant ==
    /\ \A i \in 1..Len(history.entries) : trim(history.entries[i]) # <<>>
    /\ \A i \in 2..Len(history.entries) : history.entries[i] # history.entries[i - 1]
    /\ Len(history.entries) <= history.size
    /\ 0 <= history.cursor
    /\ history.cursor <= Len(history.entries)

\* A full buffer of capacity 2 or more, browsed back to its oldest entry.
C8_Witness ==
    /\ history.size >= 2
    /\ Len(history.entries) = history.size
    /\ history.cursor = 0
    /\ ret = Defined(history.entries[1])

\* C9: push(entry) changes nothing when entry trims to empty or equals the last
\* stored entry; otherwise the entries become the old ones followed by entry,
\* less the oldest one when that is more than the capacity (the newest N stay,
\* in insertion order), and the cursor becomes length(entries).
C9_Push ==
    [][\A entry \in HistoryInputs :
          HistoryPush(entry) =>
              IF trim(entry) = <<>>
                     \/ (history.entries # <<>>
                            /\ history.entries[Len(history.entries)] = entry)
              THEN history' = history
              ELSE LET all == Append(history.entries, entry)
                       n == Min(history.size, Len(all))
                   IN  /\ history'.entries = SubSeq(all, Len(all) - n + 1, Len(all))
                       /\ Len(all) > history.size =>
                              /\ Len(history'.entries) = history.size
                              /\ \A i \in 1..(history.size - 1) :
                                     history'.entries[i] = history.entries[i + 1]
                       /\ history'.entries[Len(history'.entries)] = entry
                       /\ history'.cursor = Len(history'.entries)
                       /\ history'.size = history.size]_vars

\* A full buffer of the largest capacity just after a push: the next push of a
\* new value drops the oldest entry.
C9_Witness ==
    /\ history.size = 3
    /\ history.entries = <<<<"a">>, <<"b">>, <<"a", SP>>>>
    /\ history.cursor = 3

\* C10: getPrevious sets the cursor to max(0, cursor - 1) and getNext to
\* min(length(entries), cursor + 1); each returns the entry at the new cursor,
\* undefined when there is none there (empty buffer, or past the end), and
\* leaves the entries alone; at cursor 0 getPrevious, and at cursor = length
\* getNext, leave the whole state as it is.
C10_GetPreviousGetNext ==
    [][/\ HistoryGetPrevious =>
              /\ history'.cursor = Max(0, history.cursor - 1)
              /\ history'.entries = history.entries
              /\ history'.size = history.size
              /\ ret' = IF history.entries = <<>> THEN Undefined
                        ELSE Defined(history.entries[history'.cursor + 1])
              /\ history.cursor = 0 => history' = history
       /\ HistoryGetNext =>
              /\ history'.cursor = Min(Len(history.entries), history.cursor + 1)
              /\ history'.entries = history.entries
              /\ history'.size = history.size
              /\ ret' = IF history'.cursor = Len(history.entries) THEN Undefined
                        ELSE Defined(history.entries[history'.cursor + 1])
              /\ history.cursor = Len(history.entries) => history' = history]_vars

\* getNext has returned the second of three entries: the cursor is on it.
C10_Witness ==
    /\ Len(history.entries) = 3
    /\ history.cursor = 1
    /\ ret = Defined(history.entries[2])
    /\ history.entries[1] # history.entries[2]
\* C11, as claimed: from the cursor left by a successful push (cursor =
\* length(entries), at least one entry), getPrevious() followed by getNext()
\* makes getNext() return the entry that getPrevious() returned.
C11_AsClaimed ==
    (history.entries # <<>> /\ history.cursor = Len(history.entries)) =>
        LET p == getPrevious(history)
            n == getNext(p.h)
        IN  n.ret = p.ret

\* C11, amended: from the cursor left by a successful push, getPrevious()
\* returns the newest entry and puts the cursor on it; the getNext() that
\* follows puts the cursor back past the end and returns undefined: the state
\* makes the round trip, the returned entry does not.
C11_RoundTrip ==
    (history.entries # <<>> /\ history.cursor = Len(history.entries)) =>
        LET p == getPrevious(history)
            n == getNext(p.h)
        IN  /\ p.ret = Defined(history.entries[Len(history.entries)])
            /\ p.h.cursor = Len(history.entries) - 1
            /\ n.ret = Undefined
            /\ n.h = history

\* getPrevious has just returned the newest of two entries: the cursor is on
\* it, one step before the place a push leaves it.
C11_Witness ==
    /\ Len(history.entries) = 2
    /\ history.cursor = 1
    /\ ret = Defined(history.entries[2])



-----------------------------------------------------------------------------
(* Properties of the engine, under Spec.  Where a property says what one    *)
(* event does, it is stated of the event applied to every reachable state.  *)

\* C1: after any sequence of read, readChar, abortRead, fakeExecute, resize and
\* data events, the logical cursor satisfies 0 <= cursor <= length(buffer).
C1_CursorInRange == 0 <= cursor /\ cursor <= Len(input)

\* A Tab listing has just resumed the prompt with the cursor inside the line.
C1_Witness ==
    /\ active
    /\ Len(input) = 2
    /\ cursor = 1
    /\ fx.resumes = 1

\* C2: with a read active and no char prompt pending, Enter submits iff
\* isIncompleteInput(buffer) is false: the promise of the read is resolved with
\* the buffer, the buffer is pushed to the history, the ActivePrompt is cleared
\* and the engine becomes inactive; otherwise one "\n" is inserted at the
\* cursor, the promise stays pending and the engine stays active.
C2_EnterSubmitsIffComplete ==
    (active /\ activePrompt.id # 0 /\ activeCharPrompt.id = 0 /\ ~hung) =>
        LET s == handleTermData(Self, <<CR>>)
        IN  IF ~isIncompleteInput(input)
            THEN /\ s.fx.resolved = <<<<activePrompt.id, input>>>>
                 /\ s.promises[activePrompt.id].state = "resolved"
                 /\ s.history = push(history, input)
                 /\ trim(input) # <<>> =>
                        /\ s.history.entries # <<>>
                        /\ s.history.entries[Len(s.history.entries)] = input
                 /\ s.activePrompt = NoPrompt
                 /\ ~s.active
                 /\ s.input = input
            ELSE /\ s.input = SubSeq(input, 1, cursor) \o <<NL>>
                                  \o SubSeq(input, cursor + 1, Len(input))
                 /\ s.cursor = cursor + 1
                 /\ s.promises = promises
                 /\ s.fx.resolved = <<>>
                 /\ s.fx.rejected = <<>>
                 /\ s.activePrompt = activePrompt
                 /\ s.history = history
                 /\ s.active

\* A first read was submitted by Enter and a second one got a continuation line.
C2_Witness ==
    /\ Len(promises) = 2
    /\ promises[1] = [kind |-> "read", state |-> "resolved", settles |-> 1]
    /\ history.entries # <<>>
    /\ active
    /\ activePrompt.id = 2
    /\ input = <<SQ, NL>>

\* C3: once readChar has installed a char prompt, the next data event resolves
\* its promise with exactly the chunk delivered, whether or not a read is in
\* flight (also when the engine is idle).
C3_NextChunkResolvesCharPrompt ==
    (activeCharPrompt.id # 0 /\ ~hung) =>
        \A data \in Chunks :
            LET s == handleTermData(Self, data)
            IN  /\ s.fx.resolved = <<<<activeCharPrompt.id, data>>>>
                /\ s.promises[activeCharPrompt.id].state = "resolved"
                /\ s.activeCharPrompt = NoCharPrompt

\* C4, as claimed: with an ActivePrompt and an ActiveCharPrompt both pending,
\* the next data event resolves only the char prompt with the chunk and clears
\* it, and leaves the buffer, the logical cursor, the history and the
\* ActivePrompt unchanged; the engine is then back to line editing.
C4_AsClaimed ==
    (activePrompt.id # 0 /\ activeCharPrompt.id # 0 /\ ~hung) =>
        \A data \in Chunks :
            LET s == handleTermData(Self, data)
            IN  /\ s.fx.resolved = <<<<activeCharPrompt.id, data>>>>
                /\ s.fx.rejected = <<>>
                /\ s.promises[activePrompt.id].state = "pending"
                /\ s.activeCharPrompt = NoCharPrompt
                /\ s.activePrompt = activePrompt
                /\ s.active
                /\ s.input = input
                /\ s.history = history
                /\ s.cursor = cursor

\* C4, amended: as claimed, but the logical cursor is left unchanged only by a
\* caller's char prompt; after the Tab confirmation prompt the resume step puts
\* it back to the offset saved when Tab was pressed, cut to the buffer (unless
\* the listing asked for by y or Y never ends, and the resume is never reached).
C4_CharPromptFirst ==
    (activePrompt.id # 0 /\ activeCharPrompt.id # 0 /\ ~hung) =>
        \A data \in Chunks :
            LET s == handleTermData(Self, data)
            IN  /\ s.fx.resolved = <<<<activeCharPrompt.id, data>>>>
                /\ s.fx.rejected = <<>>
                /\ s.promises[activePrompt.id].state = "pending"
                /\ s.activeCharPrompt = NoCharPrompt
                /\ s.activePrompt = activePrompt
                /\ s.active
                /\ s.input = input
                /\ s.history = history
                /\ s.cursor = IF activeCharPrompt.then = "confirm" /\ ~s.hung
                              THEN Min(activeCharPrompt.cursor, Len(input))
                              ELSE cursor

\* The answer to a Tab confirmation has resolved the char prompt and the resume
\* step has put the cursor back inside the line; the read is still pending.
C4_Witness ==
    /\ fx.resumes = 1
    /\ Len(fx.resolved) = 1
    /\ promises[fx.resolved[1][1]].kind = "char"
    /\ activePrompt.id # 0
    /\ promises[activePrompt.id].state = "pending"
    /\ activeCharPrompt = NoCharPrompt
    /\ cursor < Len(input)

\* C5: abortRead(reason) rejects each pending prompt with exactly reason and
\* clears it, and writes one line break when there was one; afterwards the
\* engine is inactive with no prompt pending; with nothing pending it writes
\* nothing and rejects nothing.
C5_AbortRead ==
    ~hung =>
        \A reason \in Reasons :
            LET s == abortRead(Self, reason)
                line == IF activePrompt.id # 0
                        THEN <<<<activePrompt.id, reason>>>> ELSE <<>>
                char == IF activeCharPrompt.id # 0
                        THEN <<<<activeCharPrompt.id, reason>>>> ELSE <<>>
            IN  /\ s.fx.rejected = line \o char
                /\ s.fx.resolved = <<>>
                /\ s.fx.wrote = IF line \o char = <<>> THEN <<>> ELSE <<<<CR, NL>>>>
                /\ \A i \in 1..Len(promises) :
                       s.promises[i] =
                           IF i \in {activePrompt.id, activeCharPrompt.id}
                           THEN [kind |-> promises[i].kind, state |-> "rejected", settles |-> 1]
                           ELSE promises[i]
                /\ s.activePrompt = NoPrompt
                /\ s.activeCharPrompt = NoCharPrompt
                /\ ~s.active

\* Both a read and a readChar have just been rejected with the reason given.
C5_Witness ==
    /\ ~active
    /\ fx.rejected = <<<<1, "timeout">>, <<2, "timeout">>>>
    /\ fx.wrote = <<<<CR, NL>>>>
    /\ promises[1].kind = "read"
    /\ promises[2].kind = "char"
    /\ activePrompt = NoPrompt
    /\ activeCharPrompt = NoCharPrompt

\* C6: a promise returned by read() is settled at most once, and a step settles
\* it only by an Enter on complete input while it is the ActivePrompt
\* (resolved with the buffer) or by abortRead (rejected); no other event
\* settles it.
C6_ReadSettledOnce ==
    /\ [](\A i \in 1..Len(promises) :
              /\ promises[i].settles <= 1
              /\ promises[i].settles = 0 <=> promises[i].state = "pending")
    /\ [][\A i \in 1..Len(promises) :
              (promises[i].kind = "read" /\ promises'[i] # promises[i]) =>
                  /\ promises[i].state = "pending"
                  /\ activePrompt.id = i
                  /\ activePrompt' = NoPrompt
                  /\ \/ /\ \E data \in Chunks : (\E k \in 1..Len(data) : data[k] \in {CR, NL})
                                                  /\ TermData(data)
                        /\ activeCharPrompt.id = 0
                        /\ ~isIncompleteInput(input')
                        /\ promises'[i].state = "resolved"
                        /\ fx'.resolved = <<<<i, input'>>>>
                     \/ /\ \E reason \in Reasons :
                               AbortRead(reason) /\ <<i, reason>> = fx'.rejected[1]
                        /\ promises'[i].state = "rejected"]_vars

\* One read was resolved by Enter and the next one rejected by abortRead.
C6_Witness ==
    /\ Len(promises) = 2
    /\ promises[1] = [kind |-> "read", state |-> "resolved", settles |-> 1]
    /\ promises[2] = [kind |-> "read", state |-> "rejected", settles |-> 1]

\* C7: Ctrl+C during an active read empties the buffer, puts the cursor at 0
\* and rewinds the history browse cursor to length(entries); the read stays
\* pending (its ActivePrompt neither resolved, rejected nor cleared), the
\* engine stays active and the history entries are unchanged.
C7_CtrlC ==
    (active /\ activePrompt.id # 0 /\ activeCharPrompt.id = 0 /\ ~hung) =>
        LET s == handleTermData(Self, <<ETX>>)
        IN  /\ s.input = <<>>
            /\ s.cursor = 0
            /\ s.history.cursor = Len(history.entries)
            /\ s.history.entries = history.entries
            /\ s.promises = promises
            /\ s.fx.resolved = <<>>
            /\ s.fx.rejected = <<>>
            /\ s.activePrompt = activePrompt
            /\ s.active

\* Ctrl+C has just been echoed on a read whose history holds an entry.
C7_Witness ==
    /\ fx.wrote = <<<<"^", "C", CR, NL, "$">>>>
    /\ active
    /\ promises[activePrompt.id].state = "pending"
    /\ input = <<>>
    /\ cursor = 0
    /\ history.entries # <<>>
    /\ history.cursor = Len(history.entries)

\* C12: a chunk longer than 3 characters that does not start with ESC,
\* delivered as one data event, leaves the engine in the same state (buffer,
\* cursor, history, ActivePrompt, ActiveCharPrompt, active flag, promise
\* outcomes) as its line-ending-normalized characters delivered one by one;
\* stated here of the states with no char prompt pending when the chunk comes.
C12_PasteAsTyping ==
    (activeCharPrompt.id = 0 /\ ~hung) =>
        \A data \in Pastes :
            LET p == handleTermData(Self, data)
                t == deliverEach(Self, normalizeLineEndings(data))
            IN  /\ p.input = t.input
                /\ p.cursor = t.cursor
                /\ p.history = t.history
                /\ p.activePrompt = t.activePrompt
                /\ p.activeCharPrompt = t.activeCharPrompt
                /\ p.active = t.active
                /\ p.promises = t.promises
                /\ p.hung = t.hung

-----------------------------------------------------------------------------
(* Tab completion on its own: a read is active, the line and the cursor are *)
(* any of the short lines over a letter, the space and the single quote,    *)
(* and one or two handlers are registered.                                  *)

TabInputs == UNION {[1..n -> {"y", SP, SQ}] : n \in 0..MaxTabLen}

TabHandlerLists ==
    LET fns == HandlerFns \cup {"one"}
    IN  {<<f>> : f \in fns} \cup {<<f, g>> : f \in fns, g \in fns}

TabAnswers == {<<"y">>, <<"Y">>, <<"n">>, <<CR>>}

InitTab ==
    /\ active = TRUE
    /\ input \in TabInputs
    /\ cursor \in 0..Len(input)
    /\ activePrompt = [id |-> 1, prompt |-> <<"$">>, continuationPrompt |-> <<">">>]
    /\ activeCharPrompt = NoCharPrompt
    /\ termSize = [cols |-> 5, rows |-> 2]
    /\ history = newHistory(historySize)
    /\ autocompleteHandlers \in TabHandlerLists
    /\ promises = <<[kind |-> "read", state |-> "pending", settles |-> 0]>>
    /\ fx = NoFx
    /\ hung = FALSE
    /\ ret = Undefined
    /\ call = NoCall

TabKey ==
    /\ ~hung
    /\ activeCharPrompt.id = 0
    /\ Len(input) <= MaxTabLen
    /\ Len(promises) < MaxPromises
    /\ Assign(handleTermData(Self, <<TAB>>))

TabAnswer(data) ==
    /\ ~hung
    /\ activeCharPrompt.id # 0
    /\ Assign(handleTermData(Self, data))

NextTab ==
    \/ TabKey
    \/ \E data \in TabAnswers : TabAnswer(data)

SpecTab == InitTab /\ [][NextTab]_vars

-----------------------------------------------------------------------------
(* Properties of Tab completion, under SpecTab (C15 under Spec). *)

C14_TabSharedFragment ==
    (/\ active /\ activeCharPrompt.id = 0 /\ ~hung /\ Len(autocompleteHandlers) > 0
     /\ \A i \in 1..Len(input) : input[i] # SQ) =>
        LET frag == SubSeq(input, 1, cursor)
            rest == SubSeq(input, cursor + 1, Len(input))
            cands == collectAutocompleteCandidates(autocompleteHandlers, frag)
            t == getLastToken(frag)
            common == {n \in 0..Len(cands[1]) :
                          \A k \in 1..Len(cands) :
                              startsWith(cands[k], SubSeq(cands[1], 1, n))}
            longest == CHOOSE n \in common : \A m \in common : m <= n
            ins == SubSeq(cands[1], Len(t) + 1, longest)
            s == handleTermData(Self, <<TAB>>)
        IN  (2 <= Len(cands) /\ Len(cands) <= maxAutocompleteEntries) =>
                /\ s.input = frag \o ins \o rest
                /\ s.cursor = cursor + Len(ins)

\* C15: Tab with more than maxAutocompleteEntries candidates installs the
\* confirmation char prompt and writes only a line break and the question,
\* nothing of the list; the list is then written iff the next data chunk is
\* exactly y or Y; either way the chunk is not inserted and the buffer is the
\* one before Tab.
C15_TabConfirmation ==
    (active /\ activeCharPrompt.id = 0 /\ ~hung /\ Len(autocompleteHandlers) > 0) =>
        LET frag == SubSeq(input, 1, cursor)
            cands == collectAutocompleteCandidates(autocompleteHandlers, frag)
            s1 == handleTermData(Self, <<TAB>>)
        IN  Len(cands) > maxAutocompleteEntries =>
                /\ s1.activeCharPrompt.id # 0
                /\ s1.promises[s1.activeCharPrompt.id].kind = "char"
                /\ s1.fx.wrote = <<<<CR, NL>>, ConfirmPrompt>>
                /\ s1.input = input
                /\ \A data \in Chunks \cup TabAnswers :
                       LET s2 == handleTermData([s1 EXCEPT !.fx = NoFx], data)
                           listed ==
                               /\ Len(s2.fx.wrote) > 1
                               /\ \A k \in 1..Len(cands) :
                                      \E w \in 2..Len(s2.fx.wrote) :
                                          \E a \in 1..(Len(s2.fx.wrote[w]) - Len(cands[k]) + 1) :
                                              SubSeq(s2.fx.wrote[w], a, a + Len(cands[k]) - 1)
                                                  = cands[k]
                       IN  /\ s2.fx.resolved = <<<<s1.activeCharPrompt.id, data>>>>
                           /\ IF data \in {<<"y">>, <<"Y">>}
                              THEN listed
                              ELSE s2.fx.wrote = <<<<CR, NL>>>>
                           /\ s2.input = input

-----------------------------------------------------------------------------
(* Properties of the redraw on a resize, under Spec. *)

\* C16: a resize event first erases the displayed input with the column count
\* cached before the event, then makes the cached TermSize the {cols, rows} of
\* the event, then prints the input again and puts the terminal cursor where
\* offsetToColRow places the logical cursor at the new column count; the
\* buffer and the logical cursor are unchanged; and no step other than a
\* resize changes the cached TermSize.
C16_Resize ==
    /\ [](~hung =>
            \A size \in TermSizes :
                LET s == handleTermResize(Self, size)
                    shown == applyPrompts(Self, input)
                    offset == applyPromptOffset(Self, input, cursor)
                    oldRows == countLines(shown, termSize.cols)
                    oldAt == offsetToColRow(shown, offset, termSize.cols)
                    newRows == countLines(shown, size.cols)
                    newAt == offsetToColRow(shown, offset, size.cols)
                    erase == [i \in 1..(oldRows - oldAt.row - 1) |-> <<ESC, "[", "E">>]
                                 \o <<<<CR, ESC, "[", "K">>>>
                                 \o [i \in 1..(oldRows - 1) |-> <<ESC, "[", "F", ESC, "[", "K">>]
                    redraw == <<crlf(shown), <<CR>>>>
                                  \o [i \in 1..(newRows - newAt.row - 1) |-> <<ESC, "[", "F">>]
                                  \o [i \in 1..newAt.col |-> <<ESC, "[", "C">>]
                IN  /\ s.fx.wrote = erase \o redraw
                    /\ s.termSize = size
                    /\ s.input = input
                    /\ s.cursor = cursor)
    /\ [][termSize' # termSize => \E size \in TermSizes : TermResize(size)]_vars

\* A line of three columns shown on one row of a 5-column terminal has just
\* been redrawn on two rows after a resize to 2 columns: one row was erased,
\* and the terminal cursor went to the start of the second row.
C16_Witness ==
    /\ termSize.cols = 2
    /\ activePrompt.id # 0
    /\ input = <<"y", "y">>
    /\ cursor = 2
    /\ fx.wrote = << <<CR, ESC, "[", "K">>, <<"$", "y", "y">>, <<CR>> >>

-----------------------------------------------------------------------------
(* The functions of utils.ts called on their own, on every argument of a    *)
(* bounded set; the call and its result are kept in `call`.                 *)

OffsetStrings == UNION {[1..n -> {"y", NL}] : n \in 0..MaxOffsetLen}

Words == UNION {[1..n -> {"a", "b"}] : n \in 0..MaxWordLen}

CandidateLists == UNION {[1..n -> Words] : n \in 1..MaxCands}

\* Command lines of a word character, a space, the two quotes, the characters
\* of the separators and the backslash.
ShellStrings ==
    UNION {[1..n -> {"y", SP, SQ, "\"", "|", "&", "\\"}] : n \in 0..MaxShellLen}

\* The padding argument of printWide: none, and the default 2.
Paddings == {0, 2}

InitUtils ==
    /\ active = FALSE
    /\ input = <<>>
    /\ cursor = 0
    /\ activePrompt = NoPrompt
    /\ activeCharPrompt = NoCharPrompt
    /\ termSize = [cols |-> 5, rows |-> 2]
    /\ history = newHistory(historySize)
    /\ autocompleteHandlers = <<>>
    /\ promises = <<>>
    /\ fx = NoFx
    /\ hung = FALSE
    /\ ret = Undefined
    /\ call = NoCall

OffsetToColRow(s, offset, maxCols) ==
    /\ call = NoCall
    /\ call' = [NoCall EXCEPT !.fn = "offsetToColRow", !.str = s, !.n = offset,
                              !.cols = maxCols,
                              !.out = offsetToColRow(s, offset, maxCols)]
    /\ UNCHANGED <<engineVars, history, ret>>

GetSharedFragment(fragment, candidates) ==
    /\ call = NoCall
    /\ call' = [NoCall EXCEPT !.fn = "getSharedFragment", !.str = fragment,
                              !.list = candidates,
                              !.out = getSharedFragment(fragment, candidates)]
    /\ UNCHANGED <<engineVars, history, ret>>

CollectAutocompleteCandidates(callbacks, s) ==
    /\ call = NoCall
    /\ call' = [NoCall EXCEPT !.fn = "collectAutocompleteCandidates", !.str = s,
                              !.fns = callbacks,
                              !.out = collectAutocompleteCandidates(callbacks, s)]
    /\ UNCHANGED <<engineVars, history, ret>>

IsIncompleteInput(s) ==
    /\ call = NoCall
    /\ call' = [NoCall EXCEPT !.fn = "isIncompleteInput", !.str = s,
                              !.out = isIncompleteInput(s)]
    /\ UNCHANGED <<engineVars, history, ret>>

\* printWide(items, padding) on a controller whose cached size is cols wide.
PrintWide(items, padding, cols) ==
    /\ call = NoCall
    /\ LET s == printWide([Self EXCEPT !.termSize.cols = cols, !.fx = NoFx],
                          items, padding)
       IN  /\ termSize' = s.termSize
           /\ fx' = s.fx
           /\ hung' = s.hung
    /\ call' = [NoCall EXCEPT !.fn = "printWide", !.list = items, !.n = padding,
                              !.cols = cols]
    /\ UNCHANGED <<active, input, cursor, activePrompt, activeCharPrompt,
                   autocompleteHandlers, promises, history, ret>>

NextUtils ==
    \/ call = NoCall /\ \E s \in ShellStrings : IsIncompleteInput(s)
    \/ call = NoCall /\ \E items \in CandidateLists \cup {<<>>}, padding \in Paddings, cols \in 0..MaxWidth :
           PrintWide(items, padding, cols)
    \/ call = NoCall /\ \E s \in OffsetStrings, maxCols \in 1..MaxCols :
           \E offset \in 0..Len(s) : OffsetToColRow(s, offset, maxCols)
    \/ call = NoCall /\ \E fragment \in Words, candidates \in CandidateLists :
           GetSharedFragment(fragment, candidates)
    \/ call = NoCall /\ \E callbacks \in TabHandlerLists, s \in TabInputs :
           CollectAutocompleteCandidates(callbacks, s)

SpecUtils == InitUtils /\ [][NextUtils]_vars

-----------------------------------------------------------------------------
(* Properties of the functions of utils.ts, under SpecUtils. *)

\* C17: for a string, an offset in 0..length and maxCols > 0, offsetToColRow
\* returns the position of the cursor of a terminal maxCols wide after the
\* first offset characters were written from (0,0), each row holding maxCols
\* characters: offset 0 gives row 0, col 0 and, where no "\n" is among the
\* characters written, row = offset div maxCols and col = offset mod maxCols;
\* stated here of the offsets that do not end a full row.
C17_OffsetToColRow ==
    call.fn = "offsetToColRow" =>
        /\ call.n = 0 => call.out = [row |-> 0, col |-> 0]
        /\ (/\ \A i \in 1..call.n : call.str[i] # NL
            /\ call.n % call.cols # 0) =>
               call.out = [row |-> call.n \div call.cols, col |-> call.n % call.cols]

\* C18: for a non-empty list of candidates that all start with fragment,
\* getSharedFragment(fragment, candidates) ends and returns the longest common
\* prefix of the candidates, a string that starts with fragment and is a
\* prefix of every candidate, whatever the order of the candidates.
C18_GetSharedFragmentPrefix ==
    (/\ call.fn = "getSharedFragment"
     /\ \A k \in 1..Len(call.list) : startsWith(call.list[k], call.str)) =>
        LET cands == call.list
            common == {n \in 0..Len(cands[1]) :
                          \A k \in 1..Len(cands) :
                              startsWith(cands[k], SubSeq(cands[1], 1, n))}
            longest == CHOOSE n \in common : \A m \in common : m <= n
            reversed == [i \in 1..Len(cands) |-> cands[Len(cands) + 1 - i]]
        IN  /\ call.out = Defined(SubSeq(cands[1], 1, longest))
            /\ startsWith(call.out.val, call.str)
            /\ \A k \in 1..Len(cands) : startsWith(cands[k], call.out.val)
            /\ getSharedFragment(call.str, reversed) = call.out

\* getSharedFragment("", ["ab", "aa", "a"]) has returned "a".
C18_Witness ==
    /\ call.fn = "getSharedFragment"
    /\ call.str = <<>>
    /\ call.list = <<<<"a", "b">>, <<"a", "a">>, <<"a">>>>
    /\ call.out = Defined(<<"a">>)

\* C19, as claimed: getSharedFragment returns null when the candidates have no
\* common prefix that extends the fragment, as for ("", ["a", "b"]), and
\* whenever some candidate does not start with the fragment passed in.
C19_AsClaimed ==
    call.fn = "getSharedFragment" =>
        /\ (/\ call.str = <<>>
            /\ \E j, k \in 1..Len(call.list) :
                   /\ call.list[j] # <<>>
                   /\ call.list[k] # <<>>
                   /\ call.list[j][1] # call.list[k][1]) => call.out = Undefined
        /\ (\E k \in 1..Len(call.list) : ~startsWith(call.list[k], call.str)) =>
               call.out = Undefined

\* C19, amended: when every candidate starts with the fragment the result is
\* never null: it is the fragment itself when nothing longer is shared, so
\* ("", ["a", "b"]) gives "" and not null. Null is returned only if some
\* candidate does not start with the fragment; it is returned when the first
\* candidate is longer than the fragment and does not start with it, and never
\* when the fragment is at least as long as the first candidate (the fragment
\* is then returned as it is).
C19_GetSharedFragmentNull ==
    call.fn = "getSharedFragment" =>
        /\ (\A k \in 1..Len(call.list) : startsWith(call.list[k], call.str)) =>
               call.out.def
        /\ (/\ call.str = <<>>
            /\ \E k \in 1..Len(call.list) :
                   call.list[k] = <<>> \/ call.list[k][1] # call.list[1][1]) =>
               call.out = Defined(<<>>)
        /\ ~call.out.def =>
               \E k \in 1..Len(call.list) : ~startsWith(call.list[k], call.str)
        /\ (/\ Len(call.str) < Len(call.list[1])
            /\ ~startsWith(call.list[1], call.str)) => call.out = Undefined
        /\ Len(call.str) >= Len(call.list[1]) => call.out = Defined(call.str)

\* getSharedFragment("", ["a", "b"]) has returned the empty string.
C19_Witness ==
    /\ call.fn = "getSharedFragment"
    /\ call.str = <<>>
    /\ call.list = <<<<"a">>, <<"b">>>>
    /\ call.out = Defined(<<>>)

\* C20: collectAutocompleteCandidates never fails because a handler does: the
\* result is the lists of the handlers that did not throw, one after the other
\* in the order the handlers were registered, each in its own order and with
\* repeats kept, filtered to the candidates that start with the token being
\* completed; a handler that throws adds nothing and the handlers after it
\* are still called.
C20_CollectIsolatesFailures ==
    call.fn = "collectAutocompleteCandidates" =>
        LET tokens == parse(call.str)
            expr == getLastToken(call.str)
            listOf(i) == IF i > Len(call.fns) THEN <<>>
                         ELSE LET r == callHandler(call.fns[i], 0, tokens)
                              IN  IF r.throws THEN <<>> ELSE r.list
            all == listOf(1) \o listOf(2)
        IN  /\ Len(call.fns) <= 2
            /\ call.out = SelectSeq(all, LAMBDA c : startsWith(c, expr))

\* A handler that throws, registered before one that returns yy and y: on the
\* line "y" the result is yy, y, the list of the second handler.
C20_Witness ==
    /\ call.fn = "collectAutocompleteCandidates"
    /\ call.fns = <<"bad", "two">>
    /\ call.str = <<"y">>
    /\ call.out = <<<<"y", "y">>, <<"y">>>>

\* C21: printWide(items, padding) ends for every list of items and every
\* cached terminal width, a width smaller than the longest item plus padding
\* and the width 0 included; it uses at least one column and writes every
\* item once, in row-major order, each padded with spaces to the column
\* width, in ceil(count / columns) rows each ended by println; an empty list
\* writes one blank line.  Stated here of the calls with some padding.
C21_PrintWide ==
    (call.fn = "printWide" /\ call.n > 0) =>
        LET items == call.list
            n == Len(items)
            itemWidth == Max(0, CHOOSE w \in {Len(items[i]) : i \in 1..n} \cup {0} :
                                    \A i \in 1..n : Len(items[i]) <= w) + call.n
            fit == IF itemWidth = 0 THEN n ELSE call.cols \div itemWidth
            columns == IF fit = 0 THEN 1 ELSE fit
            rows == (n + columns - 1) \div columns
        IN  /\ ~hung
            /\ n = 0 => fx.wrote = << <<CR, NL>> >>
            /\ n > 0 =>
                /\ Len(fx.wrote) = rows
                /\ \A r \in 1..rows :
                       LET first == (r - 1) * columns
                           k == Min(columns, n - first)
                           line == fx.wrote[r]
                       IN  /\ Len(line) = k * itemWidth + 2
                           /\ SubSeq(line, k * itemWidth + 1, k * itemWidth + 2) = <<CR, NL>>
                           /\ \A j \in 1..k :
                                  LET item == items[first + j]
                                      at == (j - 1) * itemWidth
                                  IN  /\ SubSeq(line, at + 1, at + Len(item)) = item
                                      /\ \A c \in (at + Len(item) + 1)..(at + itemWidth) :
                                             line[c] = SP

-----------------------------------------------------------------------------
(* Properties of the history keys and of the redraw, under Spec. *)

\* C22: with a read active and no char prompt pending, an Up arrow replaces
\* the buffer with the entry history.getPrevious() returns, the one before the
\* browse cursor or the oldest one, and puts the cursor at its end; when the
\* history is empty the buffer, the cursor and the history stay as they were.
\* Nothing is settled and the read stays active in both cases.
C22_UpArrow ==
    (active /\ activeCharPrompt.id = 0 /\ ~hung) =>
        LET s == handleTermData(Self, KeyUp)
            idx == Max(0, history.cursor - 1)
        IN  /\ IF history.entries = <<>>
               THEN /\ s.input = input
                    /\ s.cursor = cursor
                    /\ s.history = history
               ELSE /\ s.input = history.entries[idx + 1]
                    /\ s.cursor = Len(history.entries[idx + 1])
                    /\ s.history = [history EXCEPT !.cursor = idx]
            /\ s.active
            /\ s.activePrompt = activePrompt
            /\ s.promises = promises
            /\ s.fx.resolved = <<>>
            /\ s.fx.rejected = <<>>

\* The second read recalled the line of the first one: the browse cursor is on
\* the stored entry and the buffer holds it, the cursor at its end.
C22_Witness ==
    /\ active
    /\ activePrompt.id = 2
    /\ history.entries = <<<<"y">>>>
    /\ history.cursor = 0
    /\ input = <<"y">>
    /\ cursor = 1

-----------------------------------------------------------------------------
(* More properties of the functions of utils.ts, under SpecUtils. *)

\* C23: isIncompleteInput(s) is false for an empty or whitespace-only s; for
\* any other s it is true exactly when s has an odd number of single quotes,
\* or an odd number of double quotes, or nothing but whitespace follows the
\* last separator "||", "|" or "&&" (separators being taken from left to right:
\* s without its trailing whitespace ends with "|" or with an even number of
\* "&"), or s ends with a backslash that no backslash precedes.
C23_IsIncompleteInput ==
    call.fn = "isIncompleteInput" =>
        LET s == call.str
            t == trimEnd(s)
            amps == CHOOSE k \in 0..Len(t) :
                        /\ \A i \in (Len(t) - k + 1)..Len(t) : t[i] = "&"
                        /\ (k = Len(t) \/ t[Len(t) - k] # "&")
            blankAfterSeparator ==
                /\ t # <<>>
                /\ (t[Len(t)] = "|" \/ (amps > 0 /\ amps % 2 = 0))
            loneBackslash ==
                /\ s # <<>>
                /\ s[Len(s)] = "\\"
                /\ (Len(s) = 1 \/ s[Len(s) - 1] # "\\")
        IN  IF \A i \in 1..Len(s) : isSpace(s[i])
            THEN call.out = FALSE
            ELSE call.out = (\/ count(s, SQ) % 2 = 1
                             \/ count(s, "\"") % 2 = 1
                             \/ blankAfterSeparator
                             \/ loneBackslash)

\* "y&& " is incomplete: only a space follows its "&&".
C23_Witness ==
    /\ call.fn = "isIncompleteInput"
    /\ call.str = <<"y", "&", "&", SP>>
    /\ call.out = TRUE

-----------------------------------------------------------------------------
(* Properties of the redraw, under Spec. *)

\* C24: whenever the erase step of a redraw (clearInput) runs, the row it
\* computes for the cursor is the row of the displayed prompt and buffer the
\* terminal cursor is on, so the erase clears each row of the displayed prompt
\* and buffer, no other row, and ends on the first row of the prompt.  Stated
\* here of the insertion of a character, of Backspace and of Delete during a
\* read, on a display that fits the width (each "\n" starts a row and nothing
\* is wrapped), the terminal cursor being on the row of the logical cursor:
\* "\x1B[E" moves the terminal cursor one row down, "\x1B[F" one row up and
\* "\x1B[K" clears the row it is on.
C24_EraseDisplayedRows ==
    (/\ active /\ activePrompt.id # 0 /\ activeCharPrompt.id = 0 /\ ~hung
     /\ Len(applyPrompts(Self, input)) < termSize.cols) =>
        LET down == <<ESC, "[", "E">>
            here == <<CR, ESC, "[", "K">>
            up == <<ESC, "[", "F", ESC, "[", "K">>
            cursorRow == count(SubSeq(input, 1, cursor), NL)
            lastRow == count(input, NL)
            EraseOk(wrote) ==
                LET k == CHOOSE n \in 0..Len(wrote) :
                             /\ \A i \in 1..n : wrote[i] \in {down, here, up}
                             /\ (n = Len(wrote) \/ wrote[n + 1] \notin {down, here, up})
                    rowAt[i \in 0..k] ==
                        IF i = 0 THEN cursorRow
                        ELSE IF wrote[i] = down THEN rowAt[i - 1] + 1
                        ELSE IF wrote[i] = up THEN rowAt[i - 1] - 1
                        ELSE rowAt[i - 1]
                    cleared == {rowAt[i] : i \in {j \in 1..k : wrote[j] # down}}
                IN  k > 0 => (cleared = 0..lastRow /\ rowAt[k] = 0)
            s0 == [Self EXCEPT !.fx = NoFx]
        IN  /\ \A data \in Printable : EraseOk(handleCursorInsertOnTerm(s0, data).fx.wrote)
            /\ EraseOk(handleCursorEraseOnTerm(s0, TRUE).fx.wrote)
            /\ EraseOk(handleCursorEraseOnTerm(s0, FALSE).fx.wrote)

-----------------------------------------------------------------------------
(* Properties of the suspension of the prompt by Tab, under Spec. *)

\* C25: a Tab that lists the candidates, or asks whether to list them, runs
\* its resume step exactly once, when the inner operation is over: at once
\* for the listing, on the chunk that answers the question otherwise.  After
\* the resume the buffer is the one the path was entered with and the logical
\* cursor is back where it was then; no data event edits the buffer between
\* the suspension and the resume, the rest of a pasted chunk included.
C25_ResumeOnce ==
    (active /\ activeCharPrompt.id = 0 /\ ~hung /\ Len(autocompleteHandlers) > 0) =>
        LET frag == SubSeq(input, 1, cursor)
            cands == collectAutocompleteCandidates(autocompleteHandlers, frag)
            s1 == handleTermData(Self, <<TAB>>)
        IN  /\ (2 <= Len(cands) /\ Len(cands) <= maxAutocompleteEntries) =>
                /\ ~s1.hung
                /\ s1.fx.resumes = 1
                /\ s1.activeCharPrompt = NoCharPrompt
                /\ s1.cursor = cursor + (Len(s1.input) - Len(input))
            /\ Len(cands) > maxAutocompleteEntries =>
                /\ s1.fx.resumes = 0
                /\ s1.activeCharPrompt.then = "confirm"
                /\ s1.input = input
                /\ \A data \in Chunks \cup TabAnswers :
                       LET s2 == handleTermData([s1 EXCEPT !.fx = NoFx], data)
                       IN  /\ ~s2.hung
                           /\ s2.fx.resumes = 1
                           /\ s2.activeCharPrompt = NoCharPrompt
                           /\ s2.input = input
                           /\ s2.cursor = cursor
            /\ \A data \in Pastes : \A i \in 1..Len(data) :
                   LET entry == deliverEach(Self, SubSeq(data, 1, i))
                       s == handleTermData(Self, data)
                   IN  (/\ data[i] = TAB
                        /\ entry.activeCharPrompt.then = "confirm"
                        /\ s.activeCharPrompt = entry.activeCharPrompt) =>
                           s.input = entry.input

-----------------------------------------------------------------------------
(* Properties of the history across reads, under Spec. *)

\* C26: after a read completed by Enter, whatever line was submitted (an empty
\* one and one equal to the last stored entry included) and whatever Up and
\* Down keys came before, the browse cursor of the history is the number of
\* entries, so that the first Up arrow of the next read recalls the entry
\* stored last.
C26_BrowseFromNewest ==
    (/\ active /\ activePrompt.id # 0 /\ activeCharPrompt.id = 0 /\ ~hung
     /\ ~isIncompleteInput(input)) =>
        LET s == handleTermData(Self, <<CR>>)
            entries == s.history.entries
        IN  /\ s.history.cursor = Len(entries)
            /\ \A prompt \in Prompts, continuationPrompt \in ContinuationPrompts :
                   LET up == handleTermData(read(s, prompt, continuationPrompt), KeyUp)
                   IN  entries # <<>> => up.input = entries[Len(entries)]

=============================================================================
